---- MODULE Spec2Model ----
(***************************************************************************)
(* The two helpers of docs/source/example_notebooks/                       *)
(* dowhy_causal_discovery_example.ipynb: make_graph, which turns an        *)
(* adjacency matrix and an optional label list into a graphviz Digraph,    *)
(* and str_to_dot, which rewrites the Digraph's source text for            *)
(* CausalModel(graph=...).                                                 *)
(*                                                                         *)
(* Text is a sequence of one-character strings.  A matrix entry is an      *)
(* integer number of thousandths (500 is 0.5, -11 is -0.011), so that the  *)
(* comparison with 0.01 and the decimal string form are exact.             *)
(***************************************************************************)
EXTENDS Integers, Sequences, FiniteSets

VARIABLES adjacency_matrix, labels, d, string, graph, fault, pc

vars == <<adjacency_matrix, labels, d, string, graph, fault, pc>>

(***************************************************************************)
(* Bounds of the model.                                                    *)
(***************************************************************************)
MaxN == 2
MaxEdges == 2
MaxLen == 4

\* 0.01, the literal of `np.abs(adjacency_matrix) > 0.01`, in thousandths.
Threshold == 10

(***************************************************************************)
(* Characters.                                                             *)
(***************************************************************************)
Digit == <<"0", "1", "2", "3", "4", "5", "6", "7", "8", "9">>

DigitSet == {Digit[i] : i \in 1..10}

LetterSet == {"a", "b", "c", "d", "e", "g", "h", "i", "l", "n", "p", "r", "s", "t", "u", "x"}

\* What str.strip() removes, among the characters of the model.
Whitespace == {" ", "\t", "\n"}

Min(a, b) == IF a < b THEN a ELSE b

Max(a, b) == IF a > b THEN a ELSE b

Abs(v) == IF v < 0 THEN -v ELSE v

RECURSIVE Concat(_)
\* ''.join(parts)
Concat(parts) ==
  IF parts = <<>> THEN <<>> ELSE Head(parts) \o Concat(Tail(parts))

RECURSIVE Join(_, _)
\* sep.join(parts)
Join(parts, sep) ==
  IF parts = <<>> THEN <<>>
  ELSE IF Len(parts) = 1 THEN Head(parts)
  ELSE Head(parts) \o sep \o Join(Tail(parts), sep)

(***************************************************************************)
(* String forms: f'x{i}' and str(coef).                                    *)
(***************************************************************************)
RECURSIVE IntToStr(_)
\* str(i) of a non-negative int: its decimal digits, no leading zero.
IntToStr(i) ==
  IF i < 10 THEN <<Digit[i + 1]>>
  ELSE IntToStr(i \div 10) \o <<Digit[(i % 10) + 1]>>

RECURSIVE StripZeros(_)
\* Trailing zeros of a fraction dropped, one digit kept.
StripZeros(ds) ==
  IF Len(ds) > 1 /\ ds[Len(ds)] = "0" THEN StripZeros(SubSeq(ds, 1, Len(ds) - 1))
  ELSE ds

\* str(coef) of a numpy float64: sign, integer part, '.', the shortest fraction
\* that reads back as the same number (0.5, 0.02, -0.011, 1.0).
FloatStr(v) ==
  LET a == Abs(v)
      f == a % 1000
      frac == <<Digit[(f \div 100) + 1], Digit[((f \div 10) % 10) + 1], Digit[(f % 10) + 1]>>
  IN (IF v < 0 THEN <<"-">> ELSE <<>>) \o IntToStr(a \div 1000) \o <<".">> \o StripZeros(frac)

(***************************************************************************)
(* make_graph                                                              *)
(***************************************************************************)
None == [given |-> FALSE, list |-> <<>>]

Some(l) == [given |-> TRUE, list |-> l]

\* Truth value of the `labels` argument: None and the empty list are false.
Truthy(l) == l.given /\ l.list # <<>>

\* idx with the comparison `>=`: an entry of exactly 0.01 counts as an edge.
idx_inclusive(M, r, c) == Abs(M[r][c]) >= Threshold

\* idx = np.abs(adjacency_matrix) > 0.01, at row r and column c (from 1)
idx(M, r, c) == Abs(M[r][c]) > Threshold

\* All positions of an n x n matrix in row-major order, the order of np.where.
Positions(n) == [k \in 1..(n * n) |-> <<((k - 1) \div n) + 1, ((k - 1) % n) + 1>>]

\* dirs = np.where(idx): the (row, column) pairs of the entries above the
\* threshold, row-major.
dirs(M) == SelectSeq(Positions(Len(M)), LAMBDA p : idx(M, p[1], p[2]))

\* names with the index of f'x{i}' counted from one.
names_one_based(M, l) ==
  IF Truthy(l) THEN l.list
  ELSE [i \in 1..Len(M) |-> <<"x">> \o IntToStr(i)]

\* names with the test `labels is not None`: an empty list is kept.
names_if_not_none(M, l) ==
  IF l.given THEN l.list
  ELSE [i \in 1..Len(M) |-> <<"x">> \o IntToStr(i - 1)]

\* names = labels if labels else [f'x{i}' for i in range(len(adjacency_matrix))]
names(M, l) ==
  IF Truthy(l) THEN l.list
  ELSE [i \in 1..Len(M) |-> <<"x">> \o IntToStr(i - 1)]

\* d.node(name): one statement appended to the Digraph's body.
NodeStmt(name) == [kind |-> "node", name |-> name]

\* d.edge with its endpoints exchanged: d.edge(names[to], names[from_], ...)
EdgeStmt_reversed(M, nm, p) ==
  [kind |-> "edge", tail |-> nm[p[1]], head |-> nm[p[2]], label |-> FloatStr(M[p[1]][p[2]])]

\* d.edge(names[from_], names[to], label=str(coef))
EdgeStmt(M, nm, p) ==
  [kind |-> "edge", tail |-> nm[p[2]], head |-> nm[p[1]], label |-> FloatStr(M[p[1]][p[2]])]

\* names[from_] or names[to] is out of range for some entry above the threshold.
IndexFault(M, l) ==
  \E k \in 1..Len(dirs(M)) :
    \/ dirs(M)[k][2] > Len(names(M, l))
    \/ dirs(M)[k][1] > Len(names(M, l))

\* make_graph without the loop of d.node: only the edges are declared, and the
\* nodes are left to the edges that name them.
make_graph_edges_only(M, l) ==
  [k \in 1..Len(dirs(M)) |-> EdgeStmt(M, names(M, l), dirs(M)[k])]

\* The body of the Digraph make_graph returns: the node statements in the order
\* of names, then the edge statements in the order of dirs.
make_graph(M, l) ==
  LET nm == names(M, l)
      ds == dirs(M)
  IN [i \in 1..Len(nm) |-> NodeStmt(nm[i])]
       \o [k \in 1..Len(ds) |-> EdgeStmt(M, nm, ds[k])]

(***************************************************************************)
(* The Digraph's source text, as graphviz renders it.                      *)
(***************************************************************************)
Keywords ==
  { <<"n", "o", "d", "e">>, <<"e", "d", "g", "e">>, <<"g", "r", "a", "p", "h">>,
    <<"d", "i", "g", "r", "a", "p", "h">>, <<"s", "u", "b", "g", "r", "a", "p", "h">>,
    <<"s", "t", "r", "i", "c", "t">> }

AllIn(s, S) == \A i \in 1..Len(s) : s[i] \in S

\* [a-zA-Z_][a-zA-Z0-9_]*
IsName(s) ==
  /\ s # <<>>
  /\ s[1] \in LetterSet \cup {"_"}
  /\ AllIn(s, LetterSet \cup DigitSet \cup {"_"})

\* -?(\.[0-9]+|[0-9]+(\.[0-9]*)?)
IsNumeral(s) ==
  LET u == IF s # <<>> /\ s[1] = "-" THEN Tail(s) ELSE s
  IN \/ /\ Len(u) >= 2
        /\ u[1] = "."
        /\ AllIn(Tail(u), DigitSet)
     \/ /\ u # <<>>
        /\ AllIn(u, DigitSet)
     \/ \E k \in 2..Len(u) :
          /\ u[k] = "."
          /\ AllIn(SubSeq(u, 1, k - 1), DigitSet)
          /\ AllIn(SubSeq(u, k + 1, Len(u)), DigitSet)

\* graphviz writes an identifier bare when it is a DOT name or numeral and no
\* keyword, and in double quotes otherwise.
Quote(s) ==
  IF (IsName(s) \/ IsNumeral(s)) /\ s \notin Keywords THEN s
  ELSE <<"\"">> \o s \o <<"\"">>

Header == <<"d", "i", "g", "r", "a", "p", "h", " ", "{">>

Arrow == <<" ", "-", ">", " ">>

LabelOpen == <<" ", "[", "l", "a", "b", "e", "l", "=">>

\* The text of one statement of the body, without its indentation.
StmtText(st) ==
  IF st.kind = "node" THEN Quote(st.name)
  ELSE Quote(st.tail) \o Arrow \o Quote(st.head) \o LabelOpen \o Quote(st.label) \o <<"]">>

StmtTexts(body) == [i \in 1..Len(body) |-> StmtText(body[i])]

\* graph_dot.source: the header line, one tab-indented line per statement, the
\* closing brace; with the final newline that graphviz writes since 0.18 when
\* nl, without it (older releases) otherwise.
Source(body, nl) ==
  Header \o <<"\n">>
    \o Concat([i \in 1..Len(body) |-> <<"\t">> \o StmtText(body[i]) \o <<"\n">>])
    \o <<"}">> \o (IF nl THEN <<"\n">> ELSE <<>>)

(***************************************************************************)
(* str_to_dot                                                              *)
(***************************************************************************)
\* strip() left out.
Strip_omitted(s) == s

RECURSIVE LStrip(_)
LStrip(s) == IF s # <<>> /\ Head(s) \in Whitespace THEN LStrip(Tail(s)) ELSE s

RECURSIVE RStrip(_)
RStrip(s) ==
  IF s # <<>> /\ s[Len(s)] \in Whitespace THEN RStrip(SubSeq(s, 1, Len(s) - 1)) ELSE s

\* string.strip()
Strip(s) == RStrip(LStrip(s))

\* .replace('\n', ';')
ReplaceNewlines(s) == [i \in 1..Len(s) |-> IF s[i] = "\n" THEN ";" ELSE s[i]]

\* .replace('\t', '')
RemoveTabs(s) == SelectSeq(s, LAMBDA ch : ch # "\t")

\* graph = string.strip().replace('\n', ';').replace('\t','')
Flatten(s) == RemoveTabs(ReplaceNewlines(Strip(s)))

\* A slice bound of Python: a negative bound counts from the end, and both are
\* clipped to the string.
SliceBound(i, n) == IF i < 0 THEN Max(i + n, 0) ELSE Min(i, n)

\* s[lo:hi]
Slice(s, lo, hi) ==
  LET a == SliceBound(lo, Len(s))
      b == SliceBound(hi, Len(s))
  IN IF a >= b THEN <<>> ELSE SubSeq(s, a + 1, b)

\* graph[-1] is out of range: the flattened string is empty.
StrToDotFault(s) == Flatten(s) = <<>>

\* str_to_dot without the fixed-offset edit.
str_to_dot_unedited(s) == Flatten(s)

\* str_to_dot with its offsets one too low: graph[:8] + graph[9:-2] + graph[-1]
str_to_dot_shifted(s) ==
  LET g == Flatten(s)
  IN Slice(g, 0, 8) \o Slice(g, 9, -2) \o <<g[Len(g)]>>

\* graph[:9] + graph[10:-2] + graph[-1], where graph[-1] exists.
str_to_dot(s) ==
  LET g == Flatten(s)
  IN Slice(g, 0, 9) \o Slice(g, 10, -2) \o <<g[Len(g)]>>

(***************************************************************************)
(* The reader of the text handed to CausalModel(graph=...): a DOT parser,  *)
(* reduced to the statements str_to_dot's output holds.                    *)
(***************************************************************************)
\* The first place where pat occurs in s, 0 when it does not.
Find(s, pat) ==
  LET hits == {i \in 1..(Len(s) - Len(pat) + 1) : SubSeq(s, i, i + Len(pat) - 1) = pat}
  IN IF hits = {} THEN 0 ELSE CHOOSE i \in hits : \A j \in hits : i <= j

RECURSIVE Split(_, _)
\* s.split(sep)
Split(s, sep) ==
  LET i == Find(s, sep)
  IN IF i = 0 THEN <<s>>
     ELSE <<SubSeq(s, 1, i - 1)>> \o Split(SubSeq(s, i + Len(sep), Len(s)), sep)

\* An identifier without the double quotes around it.
Unquote(s) ==
  IF Len(s) >= 2 /\ s[1] = "\"" /\ s[Len(s)] = "\"" THEN SubSeq(s, 2, Len(s) - 1) ELSE s

\* One statement read: an edge `tail -> head [label=coef]`, or a node.
ReadStmt(st) ==
  LET i == Find(st, Arrow)
      rest == SubSeq(st, i + Len(Arrow), Len(st))
      j == Find(rest, LabelOpen)
  IN IF i = 0 THEN [kind |-> "node", name |-> Unquote(st)]
     ELSE [kind |-> "edge",
           tail |-> Unquote(SubSeq(st, 1, i - 1)),
           head |-> Unquote(SubSeq(rest, 1, j - 1)),
           label |-> Unquote(SubSeq(rest, j + Len(LabelOpen), Len(rest) - 1))]

\* The statements between `digraph {` and `}`, separated by ';'.
ReadGraph(text) ==
  LET inner == SubSeq(text, Len(Header) + 1, Len(text) - 1)
      stmts == IF inner = <<>> THEN <<>> ELSE Split(inner, <<";">>)
  IN [i \in 1..Len(stmts) |-> ReadStmt(stmts[i])]

(***************************************************************************)
(* State machine.                                                          *)
(***************************************************************************)
\* The values a matrix entry takes: zero, the threshold itself, and values
\* above it in absolute value.
Entries == {-11, 0, 10, 20, 500}

LabelPool == {<<"a">>, <<"b">>, <<"a", "\t", "b">>}

ShortPool == {<<"a">>, <<"b">>}

RECURSIVE SeqsOf(_, _)
\* The sequences of length n over S.
SeqsOf(S, n) ==
  IF n = 0 THEN {<<>>}
  ELSE {Append(s, x) : s \in SeqsOf(S, n - 1), x \in S}

Zeros(n) == [r \in 1..n |-> [c \in 1..n |-> 0]]

RECURSIVE Filled(_, _)
\* The n x n matrices with at most k non-zero entries.
Filled(n, k) ==
  IF k = 0 THEN {Zeros(n)}
  ELSE LET S == Filled(n, k - 1)
       IN S \cup {[M EXCEPT ![r][c] = v] : M \in S, r \in 1..n, c \in 1..n, v \in Entries}

\* The square matrices of size at most MaxN with at most MaxEdges non-zero entries.
Matrices == UNION {Filled(n, MaxEdges) : n \in 0..MaxN}

\* The characters of the strings handed to str_to_dot directly.
Alphabet == {" ", "\n", "\t", ";", "a"}

\* The source of a graphviz Graph (undirected): its statements start two
\* characters earlier than a Digraph's.
UndirectedSample ==
  <<"g", "r", "a", "p", "h", " ", "{", "\n", "\t", "a", " ", "-", "-", " ", "b", "\n", "}", "\n">>

\* Strings that are no Digraph source: every string of at most MaxLen characters
\* (the empty string and the blank ones among them), and a longer sample.
Strings == UNION {SeqsOf(Alphabet, n) : n \in 0..MaxLen} \cup {UndirectedSample}

\* The notebook's call make_graph(adjacency_matrix, labels=labels), labels a
\* list with one label per column, or omitted.
InitGraph ==
  /\ adjacency_matrix \in Matrices
  /\ labels \in {None} \cup {Some(l) : l \in SeqsOf(LabelPool, Len(adjacency_matrix))}
  /\ d = <<>>
  /\ string = <<>>
  /\ graph = <<>>
  /\ fault = "none"
  /\ pc = "call_make_graph"

\* A call of str_to_dot on a string of any shape.
InitString ==
  /\ adjacency_matrix = <<>>
  /\ labels = None
  /\ d = <<>>
  /\ string \in Strings
  /\ graph = <<>>
  /\ fault = "none"
  /\ pc = "call_str_to_dot"

\* A call of make_graph with a label list whose length is not the matrix
\* dimension: shorter (the empty list included) or one longer.
InitMismatch ==
  /\ adjacency_matrix \in Matrices
  /\ labels \in {Some(l) : l \in UNION {SeqsOf(ShortPool, k) :
                   k \in (0..(Len(adjacency_matrix) + 1)) \ {Len(adjacency_matrix)}}}
  /\ d = <<>>
  /\ string = <<>>
  /\ graph = <<>>
  /\ fault = "none"
  /\ pc = "call_make_graph"

Init == InitGraph \/ InitString

\* graph_dot = make_graph(adjacency_matrix, labels=labels)
MakeGraph ==
  /\ pc = "call_make_graph"
  /\ IF IndexFault(adjacency_matrix, labels)
       THEN /\ fault' = "IndexError"
            /\ pc' = "make_graph_raised"
            /\ d' = d
       ELSE /\ d' = make_graph(adjacency_matrix, labels)
            /\ pc' = "make_graph_done"
            /\ fault' = fault
  /\ UNCHANGED <<adjacency_matrix, labels, string, graph>>

\* The body of str_to_dot, called on s: it returns the edited text, or fails
\* where graph[-1] does.
StrToDotOn(s, done) ==
  /\ string' = s
  /\ IF StrToDotFault(s)
       THEN /\ fault' = "IndexError"
            /\ pc' = "str_to_dot_raised"
            /\ graph' = graph
       ELSE /\ graph' = str_to_dot(s)
            /\ pc' = done
            /\ fault' = fault
  /\ UNCHANGED <<adjacency_matrix, labels, d>>

\* graph=str_to_dot(graph_dot.source): the source of the Digraph, with or
\* without the final newline, goes through str_to_dot.
Normalize ==
  /\ pc = "make_graph_done"
  /\ \E nl \in BOOLEAN : StrToDotOn(Source(d, nl), "pipeline_done")

\* str_to_dot(string), on a string given directly
StrToDot ==
  /\ pc = "call_str_to_dot"
  /\ StrToDotOn(string, "str_to_dot_done")

Next == MakeGraph \/ Normalize \/ StrToDot

Spec == Init /\ [][Next]_vars

\* The notebook's two steps: make_graph, then str_to_dot of its source.
NextPipeline == MakeGraph \/ Normalize

\* The same two steps, make_graph called with label lists of the wrong length.
SpecMismatch == InitMismatch /\ [][NextPipeline]_vars

(***************************************************************************)
(* Properties.                                                             *)
(***************************************************************************)
Dim == Len(adjacency_matrix)

\* make_graph has returned its Digraph d.
Returned == pc \in {"make_graph_done", "pipeline_done"}

\* The label list was given with one label per row and column.
Matched == labels.given /\ Len(labels.list) = Dim

\* The positions whose entry is above 0.01 or below -0.01.
Above ==
  {p \in (1..Dim) \X (1..Dim) :
     \/ adjacency_matrix[p[1]][p[2]] > Threshold
     \/ adjacency_matrix[p[1]][p[2]] < -Threshold}

Edges(body) == SelectSeq(body, LAMBDA st : st.kind = "edge")

Nodes(body) == SelectSeq(body, LAMBDA st : st.kind = "node")

NodeNames(body) == [i \in 1..Len(Nodes(body)) |-> Nodes(body)[i].name]

\* The edge that position p = <<row, column>> stands for under the names L:
\* from the column's name to the row's name, labelled with the entry's string.
EdgeFor(L, p) ==
  [kind |-> "edge", tail |-> L[p[2]], head |-> L[p[1]],
   label |-> FloatStr(adjacency_matrix[p[1]][p[2]])]

Count(seq, x) == Cardinality({k \in 1..Len(seq) : seq[k] = x})

\* E holds exactly one edge per position above the threshold, and nothing else.
EdgesAre(E, L) ==
  /\ Len(E) = Cardinality(Above)
  /\ \A p \in Above :
       Count(E, EdgeFor(L, p)) = Cardinality({q \in Above : EdgeFor(L, q) = EdgeFor(L, p)})
  /\ \A k \in 1..Len(E) : \E p \in Above : E[k] = EdgeFor(L, p)

\* C1: with a label list L of length n, make_graph emits an edge for position
\* (r, c) if and only if |M[r][c]| > 0.01, strictly; the edge goes from L[c] to
\* L[r] and is labelled str(M[r][c]); there are as many edges as entries above
\* the threshold.
C1_EdgeIffAboveThreshold ==
  (Returned /\ Matched) => EdgesAre(Edges(d), labels.list)

\* An entry of exactly 0.01 gave no edge and an entry of -0.011 gave the only one.
C1_Witness ==
  /\ Returned /\ Matched
  /\ \E p \in (1..Dim) \X (1..Dim) : adjacency_matrix[p[1]][p[2]] = Threshold
  /\ \E p \in (1..Dim) \X (1..Dim) : adjacency_matrix[p[1]][p[2]] = -11
  /\ Len(Edges(d)) = 1

\* C2: with a label list L of length n, make_graph declares exactly n nodes, one
\* per label in the order of L, also for labels without an edge, and every node
\* declaration precedes every edge declaration, in the body and in the rendering.
C2_NodesDeclaredInOrder ==
  (Returned /\ Matched) =>
    /\ NodeNames(d) = labels.list
    /\ Len(Nodes(d)) = Dim
    /\ \A i, j \in 1..Len(d) : (d[i].kind = "node" /\ d[j].kind = "edge") => i < j
    /\ pc = "pipeline_done" =>
         LET decl == Header \o <<"\n">>
                       \o Concat([i \in 1..Dim |-> <<"\t">> \o Quote(labels.list[i]) \o <<"\n">>])
         IN SubSeq(string, 1, Len(decl)) = decl

\* Two labels, an edge, and a second label that no edge touches.
C2_Witness ==
  /\ pc = "pipeline_done" /\ Matched /\ Dim = 2
  /\ Len(Edges(d)) = 1
  /\ \E i \in 1..2 : \A k \in 1..Len(Edges(d)) :
       Edges(d)[k].tail # labels.list[i] /\ Edges(d)[k].head # labels.list[i]

ScenarioC3 ==
  /\ adjacency_matrix = <<<<0, 500>>, <<20, 0>>>>
  /\ labels = Some(<<<<"a">>, <<"b">>>>)

\* C3: for M = [[0, 0.5], [0.02, 0]] and labels ["a", "b"], make_graph emits
\* exactly two edges, b -> a labelled "0.5" and a -> b labelled "0.02".
C3_ScenarioEdges ==
  (Returned /\ ScenarioC3) =>
    Edges(d) = << [kind |-> "edge", tail |-> <<"b">>, head |-> <<"a">>, label |-> <<"0", ".", "5">>],
                  [kind |-> "edge", tail |-> <<"a">>, head |-> <<"b">>, label |-> <<"0", ".", "0", "2">>] >>

C3_Witness == Returned /\ ScenarioC3 /\ Len(Edges(d)) = 2

\* C3 as stated: the two edges are a -> b labelled "0.5" and b -> a labelled "0.02".
C3_AsStated ==
  (Returned /\ ScenarioC3) =>
    /\ Len(Edges(d)) = 2
    /\ \E k \in 1..Len(Edges(d)) :
         Edges(d)[k] = [kind |-> "edge", tail |-> <<"a">>, head |-> <<"b">>, label |-> <<"0", ".", "5">>]
    /\ \E k \in 1..Len(Edges(d)) :
         Edges(d)[k] = [kind |-> "edge", tail |-> <<"b">>, head |-> <<"a">>, label |-> <<"0", ".", "0", "2">>]

\* The names "x0", "x1", ..., one per column.
SyntheticNames == [i \in 1..Dim |-> <<"x", Digit[i]>>]

\* C8: when labels are omitted, the nodes are named "x0", ..., "x(n-1)", "x" and
\* the zero-based column index, and the node declarations and the edge endpoints
\* use these names.
C8_SyntheticNames ==
  (Returned /\ ~labels.given) =>
    /\ NodeNames(d) = SyntheticNames
    /\ EdgesAre(Edges(d), SyntheticNames)

\* Labels omitted, two columns, an edge between x0 and x1.
C8_Witness ==
  /\ Returned /\ ~labels.given /\ Dim = 2
  /\ \E k \in 1..Len(Edges(d)) : Edges(d)[k].tail = <<"x", "1">> /\ Edges(d)[k].head = <<"x", "0">>

\* The names make_graph uses.
UsedNames == IF Truthy(labels) THEN labels.list ELSE SyntheticNames

Contains(s, pat) == Find(s, pat) # 0

\* C4: for every matrix and label list, the statements of
\* str_to_dot(make_graph(M, L).source) read back as the declared nodes and as
\* exactly the edges (source label, target label, coefficient string) of the
\* entries above 0.01 in absolute value: no edge added or dropped, no node
\* name or coefficient label changed.
C4_PipelineKeepsEdges ==
  pc = "pipeline_done" =>
    /\ NodeNames(ReadGraph(graph)) = UsedNames
    /\ EdgesAre(Edges(ReadGraph(graph)), UsedNames)

\* The same holds of the label lists whose labels hold no tab character.
PipelineKeepsPlainLabels ==
  (pc = "pipeline_done" /\ \A i \in 1..Len(UsedNames) : ~Contains(UsedNames[i], <<"\t">>)) =>
    /\ NodeNames(ReadGraph(graph)) = UsedNames
    /\ EdgesAre(Edges(ReadGraph(graph)), UsedNames)

\* C5 as stated: the text str_to_dot returns for a make_graph rendering no
\* longer contains the graph-type keyword that opens the rendering.
C5_AsStated ==
  pc = "pipeline_done" => ~Contains(graph, <<"d", "i", "g", "r", "a", "p", "h">>)

\* s without its characters at the places i and j, i <= j.
Without(s, i, j) ==
  SubSeq(s, 1, i - 1)
    \o (IF i = j THEN <<>> ELSE SubSeq(s, i + 1, j - 1))
    \o SubSeq(s, j + 1, Len(s))

\* C5: the fixed-offset edit keeps the keyword: the returned text still opens
\* with `digraph {`.  What it removes from the flattened rendering is the ';'
\* right after the opening brace and the ';' right before the closing brace
\* (one and the same ';' when the graph has no statement).
C5_EditStripsSeparators ==
  pc = "pipeline_done" =>
    LET g == Flatten(string)
    IN /\ SubSeq(graph, 1, Len(Header)) = Header
       /\ g[Len(Header) + 1] = ";"
       /\ g[Len(g) - 1] = ";"
       /\ graph = Without(g, Len(Header) + 1, Len(g) - 1)

\* A rendering with statements went through str_to_dot.
C5_Witness == pc = "pipeline_done" /\ Len(d) >= 2 /\ Len(graph) = Len(Flatten(string)) - 2

\* C6 as stated: str_to_dot raises no error, whatever the input string.
C6_AsStated == pc # "str_to_dot_raised"

\* C6: str_to_dot raises no error and returns a string for every input that
\* holds a character other than whitespace, whatever its shape; for the empty
\* string and for a string of whitespace only, graph[-1] fails with an
\* IndexError.
C6_RaisesOnlyOnBlank ==
  pc \in {"str_to_dot_done", "pipeline_done", "str_to_dot_raised"} =>
    /\ (pc = "str_to_dot_raised") <=> AllIn(string, Whitespace)
    /\ pc = "str_to_dot_raised" => fault = "IndexError"
    /\ pc # "str_to_dot_raised" => (fault = "none" /\ graph # <<>>)

\* A string shorter than the assumed prefix came back without an error.
C6_Witness ==
  /\ pc = "str_to_dot_done"
  /\ Len(string) < Len(Header)
  /\ Contains(string, <<"\n">>)
  /\ Len(graph) >= 2

EmptyRenderingFlattened == pc = "pipeline_done" /\ d = <<>> /\ Len(graph) = Len(Header) + 1

\* C7 as stated: a label list whose length differs from the matrix dimension
\* makes make_graph fail with an out-of-range index fault.
C7_AsStated ==
  (pc # "call_make_graph" /\ labels.given /\ Len(labels.list) # Dim) => pc = "make_graph_raised"

\* C7: make_graph fails with an out-of-range index fault exactly when the label
\* list is not empty and an entry above the threshold lies in a row or a column
\* beyond the list's length.  Otherwise it returns a graph: for a longer list
\* (one node per label), for an empty list (the synthetic names), and for a
\* shorter list that every entry above the threshold stays within.
C7_FaultIffEdgeBeyondLabels ==
  pc # "call_make_graph" =>
    /\ (pc = "make_graph_raised") <=>
         /\ labels.given /\ labels.list # <<>>
         /\ \E p \in Above : p[1] > Len(labels.list) \/ p[2] > Len(labels.list)
    /\ pc = "make_graph_raised" => fault = "IndexError"
    /\ (pc # "make_graph_raised" /\ labels.given /\ labels.list # <<>>) =>
         NodeNames(d) = labels.list

\* A list that is too short made make_graph fail.
C7_Witness ==
  /\ pc = "make_graph_raised"
  /\ labels.given /\ Len(labels.list) < Dim

\* A list that is too short did not make it fail.
ShortListReturned ==
  /\ pc = "make_graph_done"
  /\ labels.given /\ labels.list # <<>> /\ Len(labels.list) < Dim /\ Edges(d) # <<>>

====
